---------------------------- MODULE Spec2Model ----------------------------
(***************************************************************************)
(* Model of src/main.py (APKSimilarityCompare): the feature extractor      *)
(* get_method_features and the comparison compare_apk_code with its five   *)
(* similarity metrics and the overall score.                               *)
(*                                                                         *)
(* Python's true division of two ints is modelled exactly, as a normalised *)
(* fraction <<n, d>>; a raised exception is a result [ok |-> FALSE].       *)
(* hashlib.md5 is modelled as an injective tagging of the hashed text: two *)
(* tokens are equal exactly when tag and value are equal.                  *)
(***************************************************************************)
EXTENDS Integers, Sequences, FiniteSets, TLC

VARIABLES
    pc,                   \* position in compare_apk_code
    err,                  \* the exception that ended the run, or NoError
    apk1_path, apk2_path, \* the two packages handed to compare_apk_code
    dx1, dx2,             \* the analysis objects' internal methods
    internal_methods1, internal_methods2,
    shown,                \* what lines 66-69 printed
    method_features1, method_features2,
    signature_similarity, avg_similarity, class_similarity,
    length_similarity, bb_similarity, overall_similarity,
    x_method,             \* get_method_features: its argument
    x_result              \* get_method_features: what the call produced

vars == <<pc, err, apk1_path, apk2_path, dx1, dx2, internal_methods1,
          internal_methods2, shown, method_features1, method_features2,
          signature_similarity, avg_similarity, class_similarity,
          length_similarity, bb_similarity, overall_similarity,
          x_method, x_result>>

cmpVars == <<pc, err, apk1_path, apk2_path, dx1, dx2, internal_methods1,
             internal_methods2, shown, method_features1, method_features2,
             signature_similarity, avg_similarity, class_similarity,
             length_similarity, bb_similarity, overall_similarity>>

-----------------------------------------------------------------------------
(* Bounds of the model *)

\* optional methods a package may hold besides its padding and noise methods
NumVaried == 3
\* longest instruction list of a method handed to get_method_features alone
MaxInstr == 2

(* Program constants *)

\* main.py line 65: show_index = 64
show_index == 64

-----------------------------------------------------------------------------
(* Results and exceptions *)

Ok(v) == [ok |-> TRUE, val |-> v, exc |-> "none"]
Raise(e) == [ok |-> FALSE, val |-> <<>>, exc |-> e]

NoError == "none"
Unset == <<>>
\* get_method_features has not been called
Pending == [ok |-> FALSE, val |-> <<>>, exc |-> "pending"]

(* Exact fractions for Python's int / int and float arithmetic *)

RECURSIVE Gcd(_, _)
Gcd(a, b) == IF b = 0 THEN a ELSE Gcd(b, a % b)

Frac(n, d) == LET g == Gcd(n, d) IN <<n \div g, d \div g>>

Zero == <<0, 1>>
One == <<1, 1>>

Lcm(a, b) == (a \div Gcd(a, b)) * b

RAdd(p, q) ==
    LET d == Lcm(p[2], q[2])
    IN Frac(p[1] * (d \div p[2]) + q[1] * (d \div q[2]), d)
RLess(p, q) ==
    LET d == Lcm(p[2], q[2]) IN p[1] * (d \div p[2]) < q[1] * (d \div q[2])
RLeq(p, q) == ~RLess(q, p)
RMin(p, q) == IF RLess(q, p) THEN q ELSE p
RMax(p, q) == IF RLess(p, q) THEN q ELSE p
\* p / q for fractions, q > 0
RQuot(p, q) ==
    LET g == Gcd(p[1], q[1])
        h == Gcd(p[2], q[2])
    IN Frac((p[1] \div g) * (q[2] \div h), (p[2] \div h) * (q[1] \div g))
IntMax(a, b) == IF a < b THEN b ELSE a

\* a / b on ints: ZeroDivisionError when b = 0
TrueDiv(a, b) ==
    IF b = 0 THEN Raise("ZeroDivisionError") ELSE Ok(Frac(a, b))

InUnit(p) == RLeq(Zero, p) /\ RLeq(p, One)

RECURSIVE SumSeq(_)
SumSeq(s) == IF s = <<>> THEN 0 ELSE Head(s) + SumSeq(Tail(s))

SeqToSet(s) == {s[i] : i \in DOMAIN s}

-----------------------------------------------------------------------------
(* get_method_signature, hash_feature, get_method_features *)

get_method_signature(method) == method.full_name

hash_feature(tag, value) == <<tag, value>>

StringLoads == {"const-string", "const-string/jumbo"}

\* lines 25-26
ApiCallFeatures(method) ==
    {hash_feature("api_call", method.xref_to[k]) : k \in DOMAIN method.xref_to}

\* lines 29-31: one token per block, from its instruction count
BlockFeatures(method) ==
    {hash_feature("block", Len(method.basic_blocks[k])) :
        k \in DOMAIN method.basic_blocks}

\* lines 35-38: the loop over the instructions; get_cm_string's exception is
\* not caught, so the first string load that does not resolve ends the call
RECURSIVE StringFeatures(_, _, _)
StringFeatures(instructions, i, features) ==
    IF i > Len(instructions) THEN Ok(features)
    ELSE LET instruction == instructions[i] IN
         IF instruction.name \in StringLoads
         THEN IF instruction.resolves
              THEN StringFeatures(instructions, i + 1,
                       features \cup {hash_feature("string", instruction.string)})
              ELSE Raise("ResolutionError")
         ELSE StringFeatures(instructions, i + 1, features)

get_method_features(method) ==
    LET features == {hash_feature("signature", method.full_name)}
                        \cup ApiCallFeatures(method)
                        \cup BlockFeatures(method)
    IN IF method.code
       THEN StringFeatures(method.instructions, 1, features)
       ELSE Ok(features)

filter_method(method) ==
    method.class_name.pkg = "Lwisemate/ai" /\ "private" \in method.access

-----------------------------------------------------------------------------
(* The metrics of compare_apk_code, each computed as the code computes it *)

\* lines 73-76
SignatureSimilarity(methods1, methods2) ==
    LET signatures1 == {get_method_signature(m) : m \in SeqToSet(methods1)}
        signatures2 == {get_method_signature(m) : m \in SeqToSet(methods2)}
        common_signatures == signatures1 \cap signatures2
    IN TrueDiv(Cardinality(common_signatures),
               IntMax(Cardinality(signatures1), Cardinality(signatures2)))

\* lines 84-85: the list comprehension; an exception of one call ends it
MethodFeatures(methods) ==
    LET results == [i \in DOMAIN methods |-> get_method_features(methods[i])]
    IN IF \E i \in DOMAIN methods : ~results[i].ok
       THEN results[CHOOSE i \in DOMAIN methods : ~results[i].ok]
       ELSE Ok([i \in DOMAIN methods |-> results[i].val])

\* line 89 with the union's size taken as the sum of the two sizes
JaccardBySizes(features1, features2) ==
    TrueDiv(Cardinality(features1 \cap features2),
            Cardinality(features1) + Cardinality(features2))

\* line 89: len(features1 & features2) / len(features1 | features2)
Jaccard(features1, features2) ==
    TrueDiv(Cardinality(features1 \cap features2),
            Cardinality(features1 \cup features2))

\* lines 89-90: max(... for features2 in method_features2, default=0); the
\* generator is consumed whole, so a division that raises ends the call
MaxSimilarity(features1, features_list2) ==
    LET results == {Jaccard(features1, features_list2[j]) :
                        j \in DOMAIN features_list2}
    IN IF \E r \in results : ~r.ok
       THEN CHOOSE r \in results : ~r.ok
       ELSE IF results = {} THEN Ok(Zero)
       ELSE CHOOSE r \in results : \A q \in results : RLeq(q.val, r.val)

\* lines 87-91: the loop adding each method's best match to total_similarity
RECURSIVE TotalSimilarity(_, _, _, _)
TotalSimilarity(features_list1, features_list2, i, total_similarity) ==
    IF i > Len(features_list1) THEN Ok(total_similarity)
    ELSE LET max_similarity == MaxSimilarity(features_list1[i], features_list2) IN
         IF ~max_similarity.ok THEN max_similarity
         ELSE LET total == RAdd(total_similarity, max_similarity.val) IN
              IF total = Zero
              THEN TotalSimilarity(features_list1, features_list2, i + 1, Zero)
              ELSE TotalSimilarity(features_list1, features_list2, i + 1, total)

\* lines 87-93 with the loop run over method_features2 instead
FeatureSimilarityOverList2(features_list1, features_list2) ==
    LET total == TotalSimilarity(features_list2, features_list1, 1, Zero) IN
    IF ~total.ok THEN total
    ELSE IF features_list2 # <<>>
         THEN Ok(RQuot(total.val, <<Len(features_list2), 1>>))
         ELSE Ok(Zero)

\* lines 87-93
FeatureSimilarity(features_list1, features_list2) ==
    LET total == TotalSimilarity(features_list1, features_list2, 1, Zero) IN
    IF ~total.ok THEN total
    ELSE IF features_list1 # <<>>
         THEN Ok(RQuot(total.val, <<Len(features_list1), 1>>))
         ELSE Ok(Zero)

\* lines 101-104
ClassSimilarity(methods1, methods2) ==
    LET classes1 == {m.class_name : m \in SeqToSet(methods1)}
        classes2 == {m.class_name : m \in SeqToSet(methods2)}
        common_classes == classes1 \cap classes2
    IN TrueDiv(Cardinality(common_classes),
               IntMax(Cardinality(classes1), Cardinality(classes2)))

\* lines 114-115 and 126-127: sum(xs) / len(xs) if xs else 0
Average(xs) == IF xs # <<>> THEN Frac(SumSeq(xs), Len(xs)) ELSE Zero

\* lines 118 and 130: min(a, b) / max(a, b) if max(a, b) > 0 else 1
MinMaxRatio(a, b) ==
    IF RLess(Zero, RMax(a, b)) THEN RQuot(RMin(a, b), RMax(a, b)) ELSE One

\* lines 112-118
LengthSimilarity(methods1, methods2) ==
    LET lengths1 == [i \in DOMAIN methods1 |-> methods1[i].length]
        lengths2 == [i \in DOMAIN methods2 |-> methods2[i].length]
    IN MinMaxRatio(Average(lengths1), Average(lengths2))

\* lines 124-130
BlockSimilarity(methods1, methods2) ==
    LET bb_counts1 == [i \in DOMAIN methods1 |-> Len(methods1[i].basic_blocks)]
        bb_counts2 == [i \in DOMAIN methods2 |-> Len(methods2[i].basic_blocks)]
    IN MinMaxRatio(Average(bb_counts1), Average(bb_counts2))

\* lines 134-135
OverallSimilarity(s, f, c, l, b) ==
    LET sum == RAdd(RAdd(RAdd(RAdd(s, f), c), l), b) IN RQuot(sum, <<5, 1>>)

\* line 44
get_method_body(method) ==
    [i \in DOMAIN method.instructions |-> method.instructions[i].name]

-----------------------------------------------------------------------------
(* The packages the comparison is run on.  What AnalyzeAPK returns for a   *)
(* package file is an input of the program: a valid package holds two      *)
(* methods that filter_method rejects, `pad` plain private methods of the  *)
(* target namespace, and any of NumVaried further methods.                 *)

Ins(name) == [name |-> name, resolves |-> TRUE, string |-> ""]
Load(name, string) == [name |-> name, resolves |-> TRUE, string |-> string]
BadLoad(name) == [name |-> name, resolves |-> FALSE, string |-> ""]

Target(c) == [pkg |-> "Lwisemate/ai", cls |-> c]

PadMethod(j) ==
    [full_name |-> j, class_name |-> Target(1 + (j % 2)), access |-> {"private"},
     xref_to |-> <<>>, basic_blocks |-> << <<"return-void">> >>,
     instructions |-> <<Ins("return-void")>>, code |-> TRUE,
     length |-> 1 + (j % 2)]

VariedMethod(i) ==
    CASE i % 3 = 1 ->
           [full_name |-> 100 + i, class_name |-> Target(1),
            access |-> {"private", "static"}, xref_to |-> <<7, 7, 8>>,
            basic_blocks |-> << <<"const-string", "invoke-static">>, <<"return">> >>,
            instructions |-> <<Load("const-string", "s1"), Ins("invoke-static"),
                               Ins("return")>>,
            code |-> TRUE, length |-> 3]
      [] i % 3 = 2 ->
           [full_name |-> 100 + i, class_name |-> Target(10 + i),
            access |-> {"private"}, xref_to |-> <<7>>,
            basic_blocks |-> <<>>, instructions |-> <<>>,
            code |-> FALSE, length |-> 0]
      [] OTHER ->
           [full_name |-> 100 + i, class_name |-> Target(10 + i),
            access |-> {"private", "final"}, xref_to |-> <<8>>,
            basic_blocks |-> << <<"const-string", "return-void">> >>,
            instructions |-> <<BadLoad("const-string"), Ins("return-void")>>,
            code |-> TRUE, length |-> 2]

NoiseMethods ==
    << [full_name |-> 201, class_name |-> Target(1), access |-> {"public"},
        xref_to |-> <<7>>, basic_blocks |-> << <<"return-void">> >>,
        instructions |-> <<Ins("return-void")>>, code |-> TRUE, length |-> 1],
       [full_name |-> 202, class_name |-> [pkg |-> "Landroidx/core", cls |-> 1],
        access |-> {"private"}, xref_to |-> <<>>,
        basic_blocks |-> << <<"return-void">> >>,
        instructions |-> <<Ins("return-void")>>, code |-> TRUE, length |-> 1] >>

RECURSIVE VariedMethods(_, _)
VariedMethods(i, chosen) ==
    IF i > NumVaried THEN <<>>
    ELSE (IF i \in chosen THEN <<VariedMethod(i)>> ELSE <<>>)
             \o VariedMethods(i + 1, chosen)

PadCounts == {0, show_index, show_index + 1}

Apks ==
    [valid : {TRUE}, pad : PadCounts, varied : SUBSET (1 .. NumVaried)]
        \cup {[valid |-> FALSE, pad |-> 0, varied |-> {}]}

\* lines 47-48 with dx.get_internal_methods(): AnalyzeAPK raises on a file
\* that is no valid package
analyze_apk(apk_path) ==
    IF apk_path.valid
    THEN Ok(NoiseMethods \o [j \in 1 .. apk_path.pad |-> PadMethod(j)]
                \o VariedMethods(1, apk_path.varied))
    ELSE Raise("LoadError")

-----------------------------------------------------------------------------
(* compare_apk_code *)

Init ==
    /\ pc = "analyze"
    /\ err = NoError
    /\ apk1_path \in Apks
    /\ apk2_path \in Apks
    /\ dx1 = Unset /\ dx2 = Unset
    /\ internal_methods1 = Unset /\ internal_methods2 = Unset
    /\ shown = Unset
    /\ method_features1 = Unset /\ method_features2 = Unset
    /\ signature_similarity = Unset /\ avg_similarity = Unset
    /\ class_similarity = Unset /\ length_similarity = Unset
    /\ bb_similarity = Unset /\ overall_similarity = Unset
    /\ x_method = Unset /\ x_result = Pending

\* lines 58-59
Analyze ==
    /\ pc = "analyze"
    /\ LET r1 == analyze_apk(apk1_path)
           r2 == analyze_apk(apk2_path)
       IN IF ~r1.ok
          THEN pc' = "raised" /\ err' = r1.exc /\ UNCHANGED <<dx1, dx2>>
          ELSE IF ~r2.ok
          THEN pc' = "raised" /\ err' = r2.exc /\ dx1' = r1.val /\ UNCHANGED dx2
          ELSE pc' = "filter" /\ dx1' = r1.val /\ dx2' = r2.val /\ UNCHANGED err
    /\ UNCHANGED <<apk1_path, apk2_path, internal_methods1, internal_methods2,
                   shown, method_features1, method_features2,
                   signature_similarity, avg_similarity, class_similarity,
                   length_similarity, bb_similarity, overall_similarity,
                   x_method, x_result>>

\* lines 62-63
FilterMethods ==
    /\ pc = "filter"
    /\ internal_methods1' = SelectSeq(dx1, filter_method)
    /\ internal_methods2' = SelectSeq(dx2, filter_method)
    /\ pc' = "show"
    /\ UNCHANGED <<err, apk1_path, apk2_path, dx1, dx2, shown,
                   method_features1, method_features2,
                   signature_similarity, avg_similarity, class_similarity,
                   length_similarity, bb_similarity, overall_similarity,
                   x_method, x_result>>

\* lines 65-69: internal_methods1[show_index] is printed, whatever the
\* list's length
ShowMethod ==
    /\ pc = "show"
    /\ IF show_index < Len(internal_methods1)
       THEN LET method == internal_methods1[show_index + 1] IN
            /\ shown' = [class_name |-> method.class_name,
                         method_signature |-> get_method_signature(method),
                         access |-> method.access,
                         method_body |-> get_method_body(method)]
            /\ pc' = "signatures"
            /\ UNCHANGED err
       ELSE pc' = "raised" /\ err' = "IndexError" /\ UNCHANGED shown
    /\ UNCHANGED <<apk1_path, apk2_path, dx1, dx2, internal_methods1,
                   internal_methods2, method_features1, method_features2,
                   signature_similarity, avg_similarity, class_similarity,
                   length_similarity, bb_similarity, overall_similarity,
                   x_method, x_result>>

\* lines 73-76
CompareSignatures ==
    /\ pc = "signatures"
    /\ LET r == SignatureSimilarity(internal_methods1, internal_methods2) IN
       IF r.ok
       THEN signature_similarity' = r.val /\ pc' = "features" /\ UNCHANGED err
       ELSE pc' = "raised" /\ err' = r.exc /\ UNCHANGED signature_similarity
    /\ UNCHANGED <<apk1_path, apk2_path, dx1, dx2, internal_methods1,
                   internal_methods2, shown, method_features1, method_features2,
                   avg_similarity, class_similarity,
                   length_similarity, bb_similarity, overall_similarity,
                   x_method, x_result>>

\* lines 84-93
CompareFeatures ==
    /\ pc = "features"
    /\ LET f1 == MethodFeatures(internal_methods1)
           f2 == MethodFeatures(internal_methods2)
       IN IF ~f1.ok
          THEN /\ pc' = "raised" /\ err' = f1.exc
               /\ UNCHANGED <<method_features1, method_features2, avg_similarity>>
          ELSE IF ~f2.ok
          THEN /\ pc' = "raised" /\ err' = f2.exc
               /\ method_features1' = f1.val
               /\ UNCHANGED <<method_features2, avg_similarity>>
          ELSE LET r == FeatureSimilarity(f1.val, f2.val) IN
               /\ method_features1' = f1.val
               /\ method_features2' = f2.val
               /\ IF r.ok
                  THEN avg_similarity' = r.val /\ pc' = "classes" /\ UNCHANGED err
                  ELSE pc' = "raised" /\ err' = r.exc /\ UNCHANGED avg_similarity
    /\ UNCHANGED <<apk1_path, apk2_path, dx1, dx2, internal_methods1,
                   internal_methods2, shown, signature_similarity,
                   class_similarity, length_similarity, bb_similarity,
                   overall_similarity, x_method, x_result>>

\* lines 101-104
CompareClasses ==
    /\ pc = "classes"
    /\ LET r == ClassSimilarity(internal_methods1, internal_methods2) IN
       IF r.ok
       THEN class_similarity' = r.val /\ pc' = "lengths" /\ UNCHANGED err
       ELSE pc' = "raised" /\ err' = r.exc /\ UNCHANGED class_similarity
    /\ UNCHANGED <<apk1_path, apk2_path, dx1, dx2, internal_methods1,
                   internal_methods2, shown, method_features1, method_features2,
                   signature_similarity, avg_similarity,
                   length_similarity, bb_similarity, overall_similarity,
                   x_method, x_result>>

\* lines 112-118
CompareLengths ==
    /\ pc = "lengths"
    /\ length_similarity' = LengthSimilarity(internal_methods1, internal_methods2)
    /\ pc' = "blocks"
    /\ UNCHANGED <<err, apk1_path, apk2_path, dx1, dx2, internal_methods1,
                   internal_methods2, shown, method_features1, method_features2,
                   signature_similarity, avg_similarity, class_similarity,
                   bb_similarity, overall_similarity, x_method, x_result>>

\* lines 124-130
CompareBlocks ==
    /\ pc = "blocks"
    /\ bb_similarity' = BlockSimilarity(internal_methods1, internal_methods2)
    /\ pc' = "overall"
    /\ UNCHANGED <<err, apk1_path, apk2_path, dx1, dx2, internal_methods1,
                   internal_methods2, shown, method_features1, method_features2,
                   signature_similarity, avg_similarity, class_similarity,
                   length_similarity, overall_similarity, x_method, x_result>>

\* lines 134-136
Overall ==
    /\ pc = "overall"
    /\ overall_similarity' =
           OverallSimilarity(signature_similarity, avg_similarity,
                             class_similarity, length_similarity, bb_similarity)
    /\ pc' = "done"
    /\ UNCHANGED <<err, apk1_path, apk2_path, dx1, dx2, internal_methods1,
                   internal_methods2, shown, method_features1, method_features2,
                   signature_similarity, avg_similarity, class_similarity,
                   length_similarity, bb_similarity, x_method, x_result>>

\* compare_apk_code from line 65 on as a function of the two filtered lists:
\* the exception that ends the run and the value of each metric computed
\* before it
CompareOutcome(methods1, methods2) ==
    LET none == [err |-> NoError, signature_similarity |-> Unset,
                 avg_similarity |-> Unset, class_similarity |-> Unset,
                 length_similarity |-> Unset, bb_similarity |-> Unset,
                 overall_similarity |-> Unset]
        s == SignatureSimilarity(methods1, methods2)
        f1 == MethodFeatures(methods1)
        f2 == MethodFeatures(methods2)
        f == FeatureSimilarity(f1.val, f2.val)
        c == ClassSimilarity(methods1, methods2)
        l == LengthSimilarity(methods1, methods2)
        b == BlockSimilarity(methods1, methods2)
    IN IF ~(show_index < Len(methods1))
       THEN [none EXCEPT !.err = "IndexError"]
       ELSE IF ~s.ok THEN [none EXCEPT !.err = s.exc]
       ELSE IF ~f1.ok
       THEN [none EXCEPT !.err = f1.exc, !.signature_similarity = s.val]
       ELSE IF ~f2.ok
       THEN [none EXCEPT !.err = f2.exc, !.signature_similarity = s.val]
       ELSE IF ~f.ok
       THEN [none EXCEPT !.err = f.exc, !.signature_similarity = s.val]
       ELSE IF ~c.ok
       THEN [none EXCEPT !.err = c.exc, !.signature_similarity = s.val,
                         !.avg_similarity = f.val]
       ELSE [err |-> NoError, signature_similarity |-> s.val,
             avg_similarity |-> f.val, class_similarity |-> c.val,
             length_similarity |-> l, bb_similarity |-> b,
             overall_similarity |-> OverallSimilarity(s.val, f.val, c.val, l, b)]

Next ==
    \/ Analyze
    \/ FilterMethods
    \/ ShowMethod
    \/ CompareSignatures
    \/ CompareFeatures
    \/ CompareClasses
    \/ CompareLengths
    \/ CompareBlocks
    \/ Overall

Spec == Init /\ [][Next]_vars

-----------------------------------------------------------------------------
(* get_method_features on its own: one call on one method *)

InstructionKinds ==
    {Load("const-string", "s1"), Load("const-string/jumbo", "s2"),
     BadLoad("const-string"), BadLoad("const-string/jumbo"),
     Ins("invoke-virtual")}

RECURSIVE SeqsUpTo(_, _)
SeqsUpTo(S, n) ==
    IF n = 0 THEN {<<>>}
    ELSE LET shorter == SeqsUpTo(S, n - 1)
         IN shorter \cup {Append(q, e) : q \in shorter, e \in S}

XrefChoices == {<<>>, <<7>>, <<7, 7>>, <<7, 8>>}

BlockChoices ==
    {<<>>, << <<"return-void">> >>, << <<"nop">>, <<"return-void">> >>,
     << <<"const-string", "return-object">>, <<"return-void">> >>}

ExtractMethods ==
    {[full_name |-> 1, class_name |-> Target(1), access |-> {"private"},
      xref_to |-> x, basic_blocks |-> b, instructions |-> q,
      code |-> TRUE, length |-> Len(q)] :
        x \in XrefChoices, b \in BlockChoices,
        q \in SeqsUpTo(InstructionKinds, MaxInstr)}
    \cup
    {[full_name |-> 1, class_name |-> Target(1), access |-> {"private"},
      xref_to |-> x, basic_blocks |-> <<>>, instructions |-> <<>>,
      code |-> FALSE, length |-> 0] : x \in XrefChoices}

ExtractInit ==
    /\ x_method \in ExtractMethods
    /\ x_result = Pending
    /\ pc = "idle"
    /\ err = NoError
    /\ apk1_path = Unset /\ apk2_path = Unset
    /\ dx1 = Unset /\ dx2 = Unset
    /\ internal_methods1 = Unset /\ internal_methods2 = Unset
    /\ shown = Unset
    /\ method_features1 = Unset /\ method_features2 = Unset
    /\ signature_similarity = Unset /\ avg_similarity = Unset
    /\ class_similarity = Unset /\ length_similarity = Unset
    /\ bb_similarity = Unset /\ overall_similarity = Unset

\* lines 18-40
ExtractCall ==
    /\ x_result = Pending
    /\ x_result' = get_method_features(x_method)
    /\ UNCHANGED <<x_method, cmpVars>>

ExtractNext == ExtractCall

ExtractSpec == ExtractInit /\ [][ExtractNext]_vars

-----------------------------------------------------------------------------
(* What the specification asks for, stated without the code's operators *)

Terminated == pc \in {"done", "raised"}
\* both packages were loaded: the run got past lines 58-59
Loaded == pc # "analyze" /\ err # "LoadError"

\* the "not applicable" outcome of signature and class similarity
NotApplicable == <<0, 0>>

Metrics ==
    <<signature_similarity, avg_similarity, class_similarity,
      length_similarity, bb_similarity>>

\* a string load whose constant does not resolve
Unresolved(instruction) ==
    instruction.name \in StringLoads /\ ~instruction.resolves

\* the feature set of a method with unresolved string loads skipped
ExpectedFeatures(method) ==
    {<<"signature", method.full_name>>}
        \cup {<<"api_call", method.xref_to[k]>> : k \in DOMAIN method.xref_to}
        \cup {<<"block", Len(method.basic_blocks[k])>> :
                 k \in DOMAIN method.basic_blocks}
        \cup (IF method.code
              THEN {<<"string", method.instructions[k].string>> :
                       k \in {n \in DOMAIN method.instructions :
                                  /\ method.instructions[n].name \in StringLoads
                                  /\ method.instructions[n].resolves}}
              ELSE {})

ExpectedFeatureList(methods) ==
    [i \in DOMAIN methods |-> ExpectedFeatures(methods[i])]

\* |a & b| / |a | b|, and 0 for two empty sets
JaccardIndex(a, b) ==
    IF a \cup b = {} THEN Zero
    ELSE Frac(Cardinality(a \cap b), Cardinality(a \cup b))

BestMatch(f, list2) ==
    LET values == {JaccardIndex(f, list2[j]) : j \in DOMAIN list2}
    IN IF values = {} THEN Zero
       ELSE CHOOSE v \in values : \A w \in values : RLeq(w, v)

\* the sum of the best matches of list1[lo .. hi]
RECURSIVE BestMatchSum(_, _, _, _)
BestMatchSum(list1, list2, lo, hi) ==
    IF lo > hi THEN Zero
    ELSE IF lo = hi THEN BestMatch(list1[lo], list2)
    ELSE LET mid == (lo + hi) \div 2
         IN RAdd(BestMatchSum(list1, list2, lo, mid),
                 BestMatchSum(list1, list2, mid + 1, hi))

\* the mean over list 1 of each method's best match in list 2
BestMatchMean(list1, list2) ==
    IF list1 = <<>> THEN Zero
    ELSE RQuot(BestMatchSum(list1, list2, 1, Len(list1)), <<Len(list1), 1>>)

MeanOfFive(m) ==
    RQuot(RAdd(m[1], RAdd(m[2], RAdd(m[3], RAdd(m[4], m[5])))), <<5, 1>>)

BothEmpty == internal_methods1 = <<>> /\ internal_methods2 = <<>>

-----------------------------------------------------------------------------
(* The claims *)

\* C1: once both packages are loaded, compare_apk_code runs to completion for
\* every pair of filtered lists: no exception ends it, and all five metrics
\* and the overall score are produced.
C1_RunsToCompletion ==
    (Terminated /\ Loaded) =>
        /\ pc = "done"
        /\ \A k \in 1 .. 5 : Metrics[k] # Unset
        /\ overall_similarity # Unset

\* C2: for every pair of filtered lists each of the five metrics comes out as
\* a value in [0,1]; the one other outcome allowed is "not applicable" for
\* signature (1) and class (3) similarity when both lists are empty.
C2_MetricsInUnitInterval ==
    (Terminated /\ Loaded) =>
        \A k \in 1 .. 5 :
            \/ /\ Metrics[k] # Unset
               /\ Metrics[k] # NotApplicable
               /\ InUnit(Metrics[k])
            \/ /\ Metrics[k] = NotApplicable
               /\ k \in {1, 3}
               /\ BothEmpty

\* C3: with zero filtered methods on both sides the comparison yields length
\* similarity 1, block similarity 1, feature similarity 0, and reports
\* signature and class similarity as "not applicable" (no 0/0 division).
C3_BothListsEmpty ==
    (Terminated /\ Loaded /\ BothEmpty) =>
        /\ pc = "done"
        /\ length_similarity = One
        /\ bb_similarity = One
        /\ avg_similarity = Zero
        /\ signature_similarity = NotApplicable
        /\ class_similarity = NotApplicable

\* C4: signature, class, length and block similarity are symmetric: the run
\* on (A, B) and the run on (B, A) give the same outcome for each of them.
C4_SymmetricMetrics ==
    (Terminated /\ Loaded) =>
        LET swapped == CompareOutcome(internal_methods2, internal_methods1)
        IN /\ signature_similarity = swapped.signature_similarity
           /\ class_similarity = swapped.class_similarity
           /\ length_similarity = swapped.length_similarity
           /\ bb_similarity = swapped.bb_similarity

\* C5: comparing a code base with itself yields exactly 1 for each of the
\* five metrics and for the overall score.
C5_SelfComparisonIsOne ==
    (Terminated /\ Loaded /\ dx1 = dx2) =>
        /\ pc = "done"
        /\ \A k \in 1 .. 5 : Metrics[k] = One
        /\ overall_similarity = One

\* C6: the best-match feature similarity of a comparison is the mean, over
\* the methods of list 1, of the largest Jaccard index against the methods of
\* list 2 (0 when list 2 is empty).
C6_FeatureSimilarityIsBestMatchMean ==
    (Terminated /\ Loaded) =>
        /\ avg_similarity # Unset
        /\ avg_similarity =
               BestMatchMean(ExpectedFeatureList(internal_methods1),
                             ExpectedFeatureList(internal_methods2))

\* C7: the feature similarity is directional: what the run computes is the
\* mean over list 1's best matches only, so that swapping the two packages
\* can change it (C7_SwapChangesFeatureSimilarity is such a pair).
C7_MeanOverListOneOnly ==
    avg_similarity # Unset =>
        avg_similarity = BestMatchMean(method_features1, method_features2)

\* C7, witness: a completed run whose swapped run completes with another
\* feature similarity
C7_SwapChangesFeatureSimilarity ==
    /\ pc = "done"
    /\ LET swapped == CompareOutcome(internal_methods2, internal_methods1)
       IN /\ swapped.err = NoError
          /\ swapped.avg_similarity # avg_similarity

\* C8: when a string load of the method does not resolve, get_method_features
\* skips that instruction and returns a feature set that still holds the
\* signature token, the api_call tokens, the block tokens and the string
\* tokens of the loads that resolve; no exception leaves the call.
C8_UnresolvedStringIsSkipped ==
    (/\ x_result # Pending
     /\ x_method.code
     /\ \E k \in DOMAIN x_method.instructions :
            Unresolved(x_method.instructions[k])) =>
        /\ x_result.ok
        /\ ExpectedFeatures(x_method) \subseteq x_result.val

\* C9: the overall score is the unweighted mean of the five metric values,
\* and for every pair of inputs it lies in [0,1].
C9_OverallIsMeanInUnitInterval ==
    (Terminated /\ Loaded) =>
        /\ overall_similarity # Unset
        /\ overall_similarity = MeanOfFive(Metrics)
        /\ InUnit(overall_similarity)

-----------------------------------------------------------------------------
(* Runs that complete: the metrics of lines 73-135 on the lists that get    *)
(* past line 66                                                            *)

\* the run and CompareOutcome agree
Completed_RunMatchesOutcome ==
    (Terminated /\ Loaded) =>
        CompareOutcome(internal_methods1, internal_methods2) =
            [err |-> err, signature_similarity |-> signature_similarity,
             avg_similarity |-> avg_similarity,
             class_similarity |-> class_similarity,
             length_similarity |-> length_similarity,
             bb_similarity |-> bb_similarity,
             overall_similarity |-> overall_similarity]

\* no division of the run raises, and a computed metric lies in [0,1]
Completed_MetricsInUnitInterval ==
    /\ err # "ZeroDivisionError"
    /\ \A k \in 1 .. 5 : Metrics[k] # Unset => InUnit(Metrics[k])

\* when the run and its swapped run both complete, the four metrics agree
Completed_SymmetricMetrics ==
    pc = "done" =>
        LET swapped == CompareOutcome(internal_methods2, internal_methods1)
        IN swapped.err = NoError =>
               /\ signature_similarity = swapped.signature_similarity
               /\ class_similarity = swapped.class_similarity
               /\ length_similarity = swapped.length_similarity
               /\ bb_similarity = swapped.bb_similarity

Completed_SelfComparisonIsOne ==
    (pc = "done" /\ dx1 = dx2) =>
        /\ \A k \in 1 .. 5 : Metrics[k] = One
        /\ overall_similarity = One

Completed_OverallIsMean ==
    pc = "done" =>
        /\ overall_similarity = MeanOfFive(Metrics)
        /\ InUnit(overall_similarity)

\* without an unresolved string load the extractor returns the expected set
Completed_ExtractsExpectedFeatures ==
    (x_result # Pending /\ x_result.ok) => x_result.val = ExpectedFeatures(x_method)

=============================================================================
